---------------------------- MODULE Spec2Model ----------------------------
(***************************************************************************)
(* Public chat API of the Local Life Assistant backend:                    *)
(*   dependencies.py  verify_firebase_token, rate_limit                    *)
(*   rate_limiter.py  RateLimiter (_cleanup_old_requests, check_rate_limit)*)
(*   router.py        public_chat                                          *)
(* The handlers are coroutines of one event loop (async def, served by      *)
(* FastAPI).  A coroutine runs without interruption up to its next         *)
(* suspending await, and the only one is the await of the search           *)
(* (router.py:230): verify_firebase_token, rate_limit and public_chat up   *)
(* to that await run back to back, and public_chat after it is one more    *)
(* uninterrupted stretch.  The event loop starts or resumes a request only *)
(* when no other request is running.                                       *)
(***************************************************************************)
EXTENDS Integers, Sequences, FiniteSets, TLC

\* ------------------------------------------------------------- bounds
\* RateLimiter(max_requests, window_seconds): the instance's parameters.
MaxRequests == 2
WindowSeconds == 1
\* time.time() is a float: the clock advances in ticks of 1/TicksPerSecond s.
TicksPerSecond == 2
\* The simulated clock stops after MaxTime ticks.
MaxTime == 5
\* Requests submitted in one run of the chat endpoint.
MaxTurns == 3
\* usage_tracker.trial_limit: the lifetime cap of an anonymous identity.
TrialLimit == 1
\* Requests submitted in one run of the chat endpoint with its scheduling.
MaxLiveTurns == 2

\* Python's None where a string is expected; an optional record, number or
\* list is a sequence, <<>> for None (or empty) and <<x>> for the value x.
None == "None"
\* Python truthiness of an optional string, and of an optional value or list
TruthyStr(str) == str # None /\ str # ""
Truthy(opt) == opt # <<>>

\* Two requests are in flight at once.
Slots == {1, 2}
WindowTicks == WindowSeconds * TicksPerSecond

\* Identities: "user_1" is of the anonymous class (prefix "user_").
Users == {"user_1", "alice"}

Max(a, b) == IF a >= b THEN a ELSE b

RECURSIVE SumCounts(_)
SumCounts(list) ==
    IF list = <<>> THEN 0 ELSE Head(list)[2] + SumCounts(Tail(list))

RECURSIVE MinTs(_)
MinTs(list) ==
    IF Len(list) = 1 THEN Head(list)[1]
    ELSE LET m == MinTs(Tail(list))
         IN  IF Head(list)[1] <= m THEN Head(list)[1] ELSE m

VARIABLES
    now,            \* time.time(), in ticks
    requests,       \* RateLimiter._requests: user_id -> list of (ts, count)
    usage,          \* usage_tracker: user_id -> interactions charged
    conversations,  \* conversation_storage: id -> conversation
    turn,           \* per slot: the request being served and its response
    submitted,      \* requests submitted so far
    last,           \* history: the last step of a handler
    admitted,       \* history: per user, the times of the admitted calls
    throttled_at    \* history: per user, the time of the last rejection
                    \* not followed by an admission, or None

vars == <<now, requests, usage, conversations, turn, submitted, last,
          admitted, throttled_at>>

\* ------------------------------------------------- rate_limiter.py
\* self._requests is a defaultdict(list): a missing key reads as [].
RequestsOf(user_id) ==
    IF user_id \in DOMAIN requests THEN requests[user_id] ELSE <<>>

\* rate_limiter.py:42  the filter of _cleanup_old_requests
KeepsAtOrAfterCutoff(ts, current_time) == ts >= current_time - WindowTicks
PurgesTheNewer(ts, current_time) == ts < current_time - WindowTicks
Survives(ts, current_time) == ts > current_time - WindowTicks

\* rate_limiter.py:37-43
CleanupOldRequests(list, current_time) ==
    SelectSeq(list, LAMBDA e : Survives(e[1], current_time))

\* rate_limiter.py:64-69  int() truncates the float to whole seconds
ResetTime(list, current_time) ==
    IF list # <<>>
    THEN (MinTs(list) + WindowTicks) \div TicksPerSecond
    ELSE (current_time + WindowTicks) \div TicksPerSecond

\* rate_limiter.py:72
AllowedUpToLimit(current_count) == current_count <= MaxRequests
IsAllowed(current_count) == current_count < MaxRequests

\* rate_limiter.py:73
RemainingAfterThisCall(current_count) == Max(0, MaxRequests - current_count - 1)
Remaining(current_count) == Max(0, MaxRequests - current_count)

\* rate_limiter.py:45-91  the returned pair and the list left in _requests
CheckRateLimit(list, current_time) ==
    LET kept          == CleanupOldRequests(list, current_time)
        current_count == SumCounts(kept)
        is_allowed    == IsAllowed(current_count)
    IN  [ is_allowed |-> is_allowed,
          rate_limit_info |->
              [ limit     |-> MaxRequests,
                remaining |-> Remaining(current_count),
                reset     |-> ResetTime(kept, current_time) ],
          list |-> IF is_allowed
                   THEN Append(kept, <<current_time, 1>>)
                   ELSE kept ]

\* ------------------------------------------------- responses (FastAPI)
\* A raised HTTPException becomes the response: its status, its detail and
\* only the headers given to the exception itself; whatever the handler set
\* on the injected Response object is not part of it.
HTTPException(status_code, detail, headers) ==
    [ status |-> status_code, detail |-> detail, headers |-> headers,
      body |-> <<>> ]

\* A returned ChatResponse: status_code=200 (router.py:59) with the headers
\* the handler set on the injected Response object.
Returned(response_headers, chat_response) ==
    [ status |-> 200, detail |-> <<>>, headers |-> response_headers,
      body |-> <<chat_response>> ]

\* rate_limiter.py:93-103  add_rate_limit_headers
AddRateLimitHeaders(rate_limit_info) == <<rate_limit_info>>

\* ------------------------------------------------- dependencies.py
\* Authorization headers, already split on whitespace (dependencies.py:36);
\* <<>> is a missing or empty header.
Tokens == Users \cup {"expired", "invalid", "crash", "nouid"}
Authorizations ==
    {<<>>, <<"Bearer">>, <<"Basic", "alice">>, <<"BEARER", "alice">>}
        \cup {<<"Bearer", t>> : t \in Tokens \ {"alice"}}

\* str.lower() on the strings of the model
Lower(str) ==
    CASE str = "Bearer" -> "bearer"
      [] str = "BEARER" -> "bearer"
      [] str = "Basic"  -> "basic"
      [] str = "Paris"  -> "paris"
      [] str = "Boston" -> "boston"
      [] OTHER          -> str

\* user_manager.authenticate_with_token: the user data of a valid token, a
\* ValueError for an invalid or expired one, any other exception when the
\* verifier itself fails.
AuthenticateWithToken(token) ==
    CASE token \in Users   -> [raises |-> None, text |-> None, user_id |-> token]
      [] token = "nouid"   -> [raises |-> None, text |-> None, user_id |-> None]
      [] token = "expired" -> [raises |-> "ValueError", text |-> "Token expired",
                               user_id |-> None]
      [] token = "invalid" -> [raises |-> "ValueError", text |-> "Invalid signature",
                               user_id |-> None]
      [] OTHER             -> [raises |-> "Exception", text |-> "connection reset",
                               user_id |-> None]

\* dependencies.py:45-57  the try block: the user id, or what it raises
VerifyTryBlock(token) ==
    LET user_data == AuthenticateWithToken(token)
    IN  IF user_data.raises # None
        THEN [raises |-> user_data.raises, text |-> user_data.text,
              user_id |-> None]
        ELSE IF ~TruthyStr(user_data.user_id)
        THEN [raises |-> "HTTPException", text |-> "User ID not found in token",
              user_id |-> None]
        ELSE [raises |-> None, text |-> None, user_id |-> user_data.user_id]

\* dependencies.py:37  the test on the parts of the header
SchemeUnchecked(parts) == Len(parts) # 2
BadFormat(parts) == Len(parts) # 2 \/ Lower(parts[1]) # "bearer"

\* dependencies.py:20-70  verify_firebase_token: the user id or the error
VerifyFirebaseTokenResult(authorization) ==
    IF ~Truthy(authorization)
    THEN [user_id |-> None, error |->
            <<HTTPException(401, <<"Authorization header required">>, <<>>)>>]
    ELSE IF BadFormat(authorization)
    THEN [user_id |-> None, error |->
            <<HTTPException(401, <<"Invalid authorization header format">>, <<>>)>>]
    ELSE LET r == VerifyTryBlock(authorization[2])
         IN  IF r.raises = None
             THEN [user_id |-> r.user_id, error |-> <<>>]
             ELSE IF r.raises = "ValueError"
             \* except ValueError (dependencies.py:59-64)
             THEN [user_id |-> None, error |->
                     <<HTTPException(401,
                         <<"Invalid authentication token: ", r.text>>, <<>>)>>]
             \* except Exception (dependencies.py:65-70): every other
             \* exception, the HTTPException of line 51 included
             ELSE [user_id |-> None, error |->
                     <<HTTPException(500,
                         <<"Internal server error during authentication">>,
                         <<>>)>>]

\* dependencies.py:83-95  the 429 raised by rate_limit, headers included
RateLimitExceeded(rate_limit_info) ==
    HTTPException(429,
        <<"Rate limit exceeded", rate_limit_info.limit, WindowSeconds,
          rate_limit_info.reset>>,
        <<rate_limit_info>>)

\* rate_limiter.py:40,83  self._requests[user_id] = ... / .append(...)
StoreSharedList(reqs, user_id, list) == [u \in Users |-> list]
Store(reqs, user_id, list) ==
    [u \in DOMAIN reqs \cup {user_id} |->
        IF u = user_id THEN list ELSE reqs[u]]

\* ------------------------------------------------- the state
IdleTurn ==
    [ pc |-> "idle", user_id |-> None, rate_limit_info |-> <<>>,
      locals |-> <<>> ]

\* The record of the last step a handler took: what it was given, the
\* response it sent, if it sent one, and the collaborators of the pipeline
\* it called (none, but in public_chat).
Last(op, user_id, rate_limit_info, inputs, response) ==
    [ op |-> op, user_id |-> user_id,
      rate_limit_info |-> rate_limit_info, inputs |-> inputs,
      response |-> response, called |-> {} ]

Init ==
    /\ now = 0
    /\ requests = <<>>
    /\ usage = [u \in Users |-> 0]
    /\ conversations = <<>>
    /\ turn = [s \in Slots |-> IdleTurn]
    /\ submitted = 0
    /\ last = Last("none", None, <<>>, <<>>, <<>>)
    /\ admitted = [u \in Users |-> <<>>]
    /\ throttled_at = [u \in Users |-> <<>>]

\* time passes (the simulated clock of the rate limiter's runs)
Tick ==
    /\ now < MaxTime
    /\ now' = now + 1
    /\ UNCHANGED <<requests, usage, conversations, turn, submitted, last,
                   admitted, throttled_at>>

\* A slot is free when it serves no request; a request that arrives is
\* served in the first free slot.
Free(s) == turn[s].pc = "idle"
FirstFree(s) == Free(s) /\ \A t \in Slots : Free(t) => s <= t

\* A request is running from its arrival to its first suspending await or
\* its response; the event loop is idle when no request is running.
Running(s) == turn[s].pc \in {"verified", "admitted"}
LoopIdle == \A s \in Slots : ~Running(s)

\* dependencies.py:20-70  a request arrives and its credential is verified
VerifyFirebaseToken(s) ==
    /\ LoopIdle
    /\ FirstFree(s)
    /\ submitted < MaxTurns
    /\ submitted' = submitted + 1
    /\ \E authorization \in Authorizations :
         LET r == VerifyFirebaseTokenResult(authorization)
         IN  /\ turn' = [turn EXCEPT ![s] =
                   IF r.error = <<>>
                   THEN [IdleTurn EXCEPT !.pc = "verified",
                                         !.user_id = r.user_id]
                   ELSE IdleTurn]
             /\ last' = Last("verify_firebase_token", r.user_id, <<>>,
                             <<authorization>>, r.error)
    /\ UNCHANGED <<now, requests, usage, conversations, admitted, throttled_at>>

\* rate_limiter.py:45-91  one call of check_rate_limit: what it leaves in
\* _requests, with the history of the admissions and rejections
CheckRateLimitCall(user_id) ==
    LET r == CheckRateLimit(RequestsOf(user_id), now)
    IN  /\ requests' = Store(requests, user_id, r.list)
        /\ admitted' = IF r.is_allowed
                       THEN [admitted EXCEPT ![user_id] = Append(@, now)]
                       ELSE admitted
        /\ throttled_at' = [throttled_at EXCEPT ![user_id] =
                               IF r.is_allowed THEN <<>> ELSE <<now>>]

\* A caller of the rate limiter alone: check_rate_limit(user_id)
Check(user_id) ==
    /\ CheckRateLimitCall(user_id)
    /\ LET r == CheckRateLimit(RequestsOf(user_id), now)
       IN  last' = Last("check_rate_limit", user_id, <<r.rate_limit_info>>,
                        <<[ current_time |-> now,
                            throttled_at |-> throttled_at[user_id] ]>>,
                        <<r.is_allowed>>)
    /\ UNCHANGED <<now, usage, conversations, turn, submitted>>

\* dependencies.py:73-97  rate_limit
RateLimit(s) ==
    /\ turn[s].pc = "verified"
    /\ LET user_id == turn[s].user_id
           r       == CheckRateLimit(RequestsOf(user_id), now)
       IN  /\ CheckRateLimitCall(user_id)
           /\ IF r.is_allowed
              THEN /\ turn' = [turn EXCEPT ![s].pc = "admitted",
                                   ![s].rate_limit_info = <<r.rate_limit_info>>]
                   /\ last' = Last("rate_limit", user_id,
                                   <<r.rate_limit_info>>, <<>>, <<>>)
              ELSE /\ turn' = [turn EXCEPT ![s] = IdleTurn]
                   /\ last' = Last("rate_limit", user_id,
                                   <<r.rate_limit_info>>, <<>>,
                                   <<RateLimitExceeded(r.rate_limit_info)>>)
    /\ UNCHANGED <<now, usage, conversations, submitted>>

\* ------------------------------------------------- collaborators
\* usage_tracker (UsageTracker): the lifetime count of each identity
CheckTrialLimit(user_id) == usage[user_id] >= TrialLimit
GetUsage(counts, user_id) == [count |-> counts[user_id], trial_limit |-> TrialLimit]
IncrementUsage(counts, user_id) == [counts EXCEPT ![user_id] = @ + 1]

\* conversation_storage (ConversationStorage): conversations by id, the id
\* of a conversation being its position in the store
GetConversation(user_id, conversation_id) ==
    IF conversation_id \in DOMAIN conversations
    THEN <<conversations[conversation_id]>>
    ELSE <<>>
CreateConversation(convs, user_id) ==
    Append(convs, [user_id |-> user_id, messages |-> <<>>,
                   last_message_at |-> <<>>])
SaveMessage(convs, user_id, conversation_id, message) ==
    [convs EXCEPT ![conversation_id].messages = Append(@, message)]
UpdateMetadata(convs, user_id, conversation_id, last_message_at) ==
    [convs EXCEPT ![conversation_id].last_message_at = <<last_message_at>>]

\* The body of a request (ChatRequest, router.py:37-43): no reference, the
\* id of a stored conversation, or an id that no conversation has.
ChatRequests ==
    [ conversation_id : {<<>>} \cup {<<c>> : c \in 1..(Len(conversations) + 1)},
      is_initial_response : BOOLEAN ]

\* What the collaborators of one turn answer.
\* extraction_service.extract_user_preferences: preferences, or a failure
ExtractionResults ==
    { [raises |-> r, location |-> l] :
        <<r, l>> \in {<<FALSE, "Paris">>, <<FALSE, "none">>, <<TRUE, "none">>} }
\* extraction_service.extract_location_from_query: a city or None
QueryCities == {None, "Boston"}
\* cache_manager.get_cached_events and get_cache_age (hours, in tenths)
CacheResults ==
    [ raises : {FALSE}, events : {<<>>, <<"e1">>}, age : {<<>>, <<0>>, <<25>>} ]
        \cup {[raises |-> TRUE, events |-> <<>>, age |-> <<>>]}
\* search_service.intelligent_event_search: the ranked events, or a failure
SearchResults ==
    [ raises : {FALSE}, top_events : {<<>>, <<"e1">>} ]
        \cup {[raises |-> TRUE, top_events |-> <<>>]}

\* ------------------------------------------------- router.py
\* router.py:315-320  except Exception: the 500 of public_chat
InternalError(text) ==
    HTTPException(500, <<"Error processing chat request: ", text>>, <<>>)

\* router.py:91  the ownership test on the stored conversation
OwnerTestSkipped(conv_user_id, user_id) == FALSE
OwnerMismatch(conv_user_id, user_id) ==
    TruthyStr(conv_user_id) /\ conv_user_id # user_id

\* router.py:102-107  except Exception: what a failed check is mapped to
LookupFailureEscapes ==
    HTTPException(500, <<"Error processing chat request: ", "storage failed">>,
                  <<>>)
LookupFailure == HTTPException(404, <<"Conversation not found">>, <<>>)

\* router.py:80-107  the permission check: <<>> when the request may go on,
\* or the HTTPException that ends it
Authorize(user_id, conversation_id, storage_fails) ==
    IF ~Truthy(conversation_id) THEN <<>>
    ELSE IF storage_fails
    THEN <<LookupFailure>>
    ELSE LET conversation == GetConversation(user_id, conversation_id[1])
         IN  IF ~Truthy(conversation)
             THEN <<HTTPException(404, <<"Conversation not found">>, <<>>)>>
             ELSE IF OwnerMismatch(conversation[1].user_id, user_id)
             THEN <<HTTPException(403,
                      <<"You do not have permission to access this conversation">>,
                      <<>>)>>
             ELSE <<>>

\* router.py:110,127  user_id.startswith("user_")
IsAnonymous(user_id) == user_id \in {"user_1"}

\* router.py:126-130  the usage counts after the charge of this turn
ChargeRefundable(counts, user_id) == counts
ChargesEveryIdentity(counts, user_id) == IncrementUsage(counts, user_id)
Charge(counts, user_id) ==
    IF IsAnonymous(user_id) THEN IncrementUsage(counts, user_id) ELSE counts

\* router.py:110-111  the trial gate: the turn ends here
TrialGateOpen(user_id) == FALSE
TrialGate(user_id) == IsAnonymous(user_id) /\ CheckTrialLimit(user_id)

\* router.py:80-130  the order of the stages: the charge comes after the
\* permission check and the trial gate, and only when both let the turn on
ChargedBeforeAuthorize(denied, gated, counts, user_id) ==
    IF gated THEN counts ELSE Charge(counts, user_id)
UsageAfter(denied, gated, counts, user_id) ==
    IF Truthy(denied) \/ gated THEN counts ELSE Charge(counts, user_id)

\* router.py:113-124  the response of the trial gate
TrialExceededResponse(user_id) ==
    [ message |-> "trial limit reached", recommendations |-> <<>>,
      cache_used |-> FALSE, cache_age_hours |-> <<>>,
      extracted_preferences |-> <<>>, usage_stats |-> <<GetUsage(usage, user_id)>>,
      trial_exceeded |-> TRUE, conversation_id |-> <<"temp">> ]

\* router.py:153-169  city and location_provided
FlagOfQueryCityForgotten(extracted_preferences, query_city) ==
    IF /\ Truthy(extracted_preferences)
       /\ TruthyStr(extracted_preferences[1].location)
       /\ extracted_preferences[1].location # "none"
    THEN [city |-> Lower(extracted_preferences[1].location),
          location_provided |-> TRUE]
    ELSE IF TruthyStr(query_city)
    THEN [city |-> Lower(query_city), location_provided |-> FALSE]
    ELSE [city |-> None, location_provided |-> FALSE]
ResolveLocation(extracted_preferences, query_city) ==
    IF /\ Truthy(extracted_preferences)
       /\ TruthyStr(extracted_preferences[1].location)
       /\ extracted_preferences[1].location # "none"
    THEN [city |-> Lower(extracted_preferences[1].location),
          location_provided |-> TRUE]
    ELSE IF TruthyStr(query_city)
    THEN [city |-> Lower(query_city), location_provided |-> TRUE]
    ELSE [city |-> None, location_provided |-> FALSE]

\* router.py:172  an initial turn without a location ends with the
\* clarifying question
ClarifiesNever(is_initial_response, location_provided) == FALSE
Clarifies(is_initial_response, location_provided) ==
    is_initial_response /\ ~location_provided

\* router.py:183-192  the clarifying question
ClarifyResponse(extracted_preferences, conversation_id) ==
    [ message |-> "which city", recommendations |-> <<>>,
      cache_used |-> FALSE, cache_age_hours |-> <<>>,
      extracted_preferences |-> extracted_preferences, usage_stats |-> <<>>,
      trial_exceeded |-> FALSE, conversation_id |-> <<conversation_id>> ]

\* router.py:210  cache_used of a non-empty corpus
CacheUsed(cache_age_hours) ==
    cache_age_hours # <<>> /\ cache_age_hours[1] > 0

\* router.py:139-144, 283-292  a message of the transcript
Message(role) == [role |-> role, timestamp |-> now]

\* The collaborators' answers when they are not called.
NoExtraction == [raises |-> FALSE, location |-> "none"]
NoCache == [raises |-> FALSE, events |-> <<>>, age |-> <<>>]

\* router.py:71-230  public_chat up to the await of the search
PublicChat(s) ==
    /\ turn[s].pc = "admitted"
    /\ \E request \in ChatRequests, storage_fails \in BOOLEAN,
          extraction \in ExtractionResults, query_city \in QueryCities,
          cache \in CacheResults :
         LET user_id          == turn[s].user_id
             rate_limit_info  == turn[s].rate_limit_info
             response_headers == AddRateLimitHeaders(rate_limit_info[1])
             denied == Authorize(user_id, request.conversation_id, storage_fails)
             gated  == TrialGate(user_id)
             \* router.py:126-130
             charged     == Charge(usage, user_id)
             usage_stats == IF IsAnonymous(user_id)
                            THEN <<GetUsage(charged, user_id)>> ELSE <<>>
             \* router.py:132-137
             created     == IF ~Truthy(request.conversation_id)
                            THEN CreateConversation(conversations, user_id)
                            ELSE conversations
             conversation_id == IF ~Truthy(request.conversation_id)
                                THEN Len(created)
                                ELSE request.conversation_id[1]
             \* router.py:146-151
             extracted_preferences ==
                 IF request.is_initial_response
                 THEN <<[location |-> extraction.location]>> ELSE <<>>
             loc         == ResolveLocation(extracted_preferences, query_city)
             \* router.py:195-196
             city        == IF ~TruthyStr(loc.city) THEN "new york" ELSE loc.city
             \* router.py:207-215
             cache_used  == IF Truthy(cache.events)
                            THEN CacheUsed(cache.age) ELSE FALSE
             cache_age_hours == IF Truthy(cache.events) THEN cache.age ELSE <<>>
             \* the collaborators this turn calls
             extracts == ~Truthy(denied) /\ ~gated /\ request.is_initial_response
             resolves == ~Truthy(denied) /\ ~gated /\ ~(extracts /\ extraction.raises)
             queries  == resolves
                         /\ ~ResolveLocation(extracted_preferences, None).location_provided
             acquires == resolves
                         /\ ~Clarifies(request.is_initial_response,
                                       loc.location_provided)
             \* router.py:208  format(None, ".1f") raises TypeError
             format_fails == Truthy(cache.events) /\ cache.age = <<>>
             searches == acquires /\ ~cache.raises /\ ~format_fails
             called ==
                 (IF extracts THEN {"extract_user_preferences"} ELSE {})
                 \cup (IF queries THEN {"extract_location_from_query"} ELSE {})
                 \cup (IF acquires THEN {"get_cached_events"} ELSE {})
                 \cup (IF searches THEN {"intelligent_event_search"} ELSE {})
             inputs == <<[ request |-> request, storage_fails |-> storage_fails,
                           extraction |-> extraction, query_city |-> query_city,
                           cache |-> cache ]>>
             Ends(response) ==
                 /\ turn' = [turn EXCEPT ![s] = IdleTurn]
                 /\ last' = [Last("public_chat", user_id, rate_limit_info,
                                  inputs, <<response>>)
                               EXCEPT !.called = called]
         IN
         /\ Truthy(request.conversation_id) \/ ~storage_fails
         /\ extracts \/ extraction = NoExtraction
         /\ queries \/ query_city = None
         /\ acquires \/ cache = NoCache
         /\ usage' = UsageAfter(denied, gated, usage, user_id)
         /\ IF Truthy(denied)
            THEN /\ Ends(denied[1])
                 /\ UNCHANGED conversations
            ELSE IF gated
            THEN /\ Ends(Returned(response_headers,
                                  TrialExceededResponse(user_id)))
                 /\ UNCHANGED conversations
            ELSE
            \* router.py:139-144
            /\ conversations' = SaveMessage(created, user_id, conversation_id,
                                            Message("user"))
            /\ IF request.is_initial_response /\ extraction.raises
               THEN Ends(InternalError("extraction failed"))
               ELSE IF Clarifies(request.is_initial_response,
                                 loc.location_provided)
               THEN Ends(Returned(response_headers,
                        ClarifyResponse(extracted_preferences, conversation_id)))
               ELSE IF cache.raises
               THEN Ends(InternalError("cache failed"))
               ELSE IF format_fails
               THEN Ends(InternalError("unsupported format string"))
               ELSE /\ turn' = [turn EXCEPT ![s].pc = "searching",
                        ![s].locals =
                          <<[ conversation_id |-> conversation_id,
                              city |-> city,
                              location_provided |-> loc.location_provided,
                              events |-> IF Truthy(cache.events)
                                         THEN cache.events ELSE <<>>,
                              cache_used |-> cache_used,
                              cache_age_hours |-> cache_age_hours,
                              extracted_preferences |-> extracted_preferences,
                              usage_stats |-> usage_stats ]>>]
                    /\ last' = [Last("public_chat", user_id, rate_limit_info,
                                     inputs, <<>>)
                                  EXCEPT !.called = called]
    /\ UNCHANGED <<now, requests, submitted, admitted, throttled_at>>

\* router.py:237-248  formatted_recommendations
RECURSIVE FormatRecommendations(_, _)
FormatRecommendations(top_events, cache_used) ==
    IF top_events = <<>> THEN <<>>
    ELSE <<[ type |-> "event", event |-> Head(top_events),
             source |-> IF cache_used THEN "cached" ELSE "realtime" ]>>
         \o FormatRecommendations(Tail(top_events), cache_used)

\* router.py:250-265  the message: (events found, default note added)
ResponseMessage(top_events, location_provided, city) ==
    [ found |-> Truthy(top_events),
      location_note |-> ~location_provided /\ city = "new york" ]

\* router.py:283-297  the assistant message and the metadata of the turn
PersistedTwice(convs, user_id, conversation_id) ==
    UpdateMetadata(
        SaveMessage(SaveMessage(convs, user_id, conversation_id,
                                Message("assistant")),
                    user_id, conversation_id, Message("assistant")),
        user_id, conversation_id, now)
Persist(convs, user_id, conversation_id) ==
    UpdateMetadata(
        SaveMessage(convs, user_id, conversation_id, Message("assistant")),
        user_id, conversation_id, now)

\* router.py:230-297  the conversations after the search has answered: an
\* exception raised at the await goes to the except clause of line 315, past
\* the persistence
PersistsDespiteFailure(raises, convs, user_id, conversation_id) ==
    Persist(convs, user_id, conversation_id)
AfterSearch(raises, convs, user_id, conversation_id) ==
    IF raises THEN convs ELSE Persist(convs, user_id, conversation_id)

\* router.py:230-320  where the request is once the search has answered or
\* raised: the handler runs on to its return or to the raise of line 317,
\* without calling the search again
RetriesFailedSearch(raises) == IF raises THEN "searching" ELSE "idle"
PcAfterSearch(raises) == "idle"

\* router.py:235-310  public_chat after the search has answered
SearchReturns(s) ==
    /\ LoopIdle
    /\ turn[s].pc = "searching"
    /\ \E search \in SearchResults :
         LET l == turn[s].locals[1]
             user_id == turn[s].user_id
             rate_limit_info == turn[s].rate_limit_info
             formatted_recommendations ==
                 FormatRecommendations(search.top_events, l.cache_used)
             response_message ==
                 ResponseMessage(search.top_events, l.location_provided, l.city)
             Ends(response) ==
                 /\ turn' = [turn EXCEPT ![s] =
                                IF PcAfterSearch(search.raises) = "idle"
                                THEN IdleTurn ELSE @]
                 /\ last' = Last("search_returns", user_id, rate_limit_info,
                                 <<search>>, <<response>>)
         IN  /\ conversations' = AfterSearch(search.raises, conversations,
                                              user_id, l.conversation_id)
             /\ IF search.raises
                THEN Ends(InternalError("search failed"))
                ELSE Ends(Returned(AddRateLimitHeaders(rate_limit_info[1]),
                        [ message |-> response_message,
                          recommendations |-> formatted_recommendations,
                          cache_used |-> l.cache_used,
                          cache_age_hours |-> l.cache_age_hours,
                          extracted_preferences |-> l.extracted_preferences,
                          usage_stats |-> l.usage_stats,
                          trial_exceeded |-> FALSE,
                          conversation_id |-> <<l.conversation_id>> ]))
    /\ UNCHANGED <<now, requests, usage, submitted, admitted, throttled_at>>

\* The caller goes away while public_chat awaits the search: the task is
\* cancelled at the await (router.py:230) and nothing after it runs.
Cancel(s) ==
    /\ LoopIdle
    /\ turn[s].pc = "searching"
    /\ turn' = [turn EXCEPT ![s] = IdleTurn]
    /\ last' = Last("cancel", turn[s].user_id, turn[s].rate_limit_info,
                    <<>>, <<>>)
    /\ UNCHANGED <<now, requests, usage, conversations, submitted, admitted,
                   throttled_at>>

\* The chat endpoint under requests that arrive within one reading of the
\* clock; the passage of time is the subject of SpecLimiter.
Next ==
    \/ \E s \in Slots : VerifyFirebaseToken(s)
    \/ \E s \in Slots : RateLimit(s)
    \/ \E s \in Slots : PublicChat(s)
    \/ \E s \in Slots : SearchReturns(s)
    \/ \E s \in Slots : Cancel(s)

Spec == Init /\ [][Next]_vars

\* The rate limiter under any sequence of calls, with a simulated clock.
NextLimiter ==
    \/ Tick
    \/ \E user_id \in Users : Check(user_id)

SpecLimiter == Init /\ [][NextLimiter]_vars

\* The chat endpoint with its scheduling.  The event loop runs every
\* coroutine that is ready: a request that was verified goes on to rate_limit
\* and to public_chat.  The search answers or fails within its timeout, and
\* the loop then resumes the request once it is idle.  Whether a request
\* arrives, and whether its caller goes away, is up to the callers.
Fairness ==
    \A s \in Slots :
        /\ WF_vars(RateLimit(s))
        /\ WF_vars(PublicChat(s))
        /\ WF_vars(SearchReturns(s))

NextLive ==
    \/ \E s \in Slots : submitted < MaxLiveTurns /\ VerifyFirebaseToken(s)
    \/ \E s \in Slots : RateLimit(s)
    \/ \E s \in Slots : PublicChat(s)
    \/ \E s \in Slots : SearchReturns(s)
    \/ \E s \in Slots : Cancel(s)

SpecLive == Init /\ [][NextLive]_vars /\ Fairness

\* The chat endpoint started on a store that already holds a conversation
\* whose document has no "user_id": router.py:90-91 reads the owner with
\* conversation.get("user_id") and tests it for truth, the case of a
\* document without the field.
InitStored ==
    /\ now = 0
    /\ requests = <<>>
    /\ usage = [u \in Users |-> 0]
    /\ conversations = <<[user_id |-> None, messages |-> <<>>,
                          last_message_at |-> <<>>]>>
    /\ turn = [s \in Slots |-> IdleTurn]
    /\ submitted = 0
    /\ last = Last("none", None, <<>>, <<>>, <<>>)
    /\ admitted = [u \in Users |-> <<>>]
    /\ throttled_at = [u \in Users |-> <<>>]

SpecStored == InitStored /\ [][Next]_vars

\* ------------------------------------------------- the rate limiter's claims
\* The calls admitted for user_id with a time in the window (t - window, t]
AdmittedIn(user_id, t) ==
    Cardinality({ i \in DOMAIN admitted[user_id] :
                    /\ admitted[user_id][i] > t - WindowTicks
                    /\ admitted[user_id][i] <= t })

\* The step is a call of check_rate_limit for user_id.
CheckStep(user_id) ==
    /\ now' = now
    /\ last'.op = "check_rate_limit"
    /\ last'.user_id = user_id

\* C1: whatever the order of the calls for one identity, no rolling window
\* (t - window_length, t] holds more than max_requests admitted calls.
C1_RollingWindowBound ==
    \A user_id \in Users : \A t \in 0..MaxTime :
        AdmittedIn(user_id, t) <= MaxRequests

\* C1 witness: two calls at the same instant with one slot left: the first
\* took the last slot at this instant, the second has just been rejected.
C1_Witness ==
    /\ last.op = "check_rate_limit"
    /\ last.response = <<FALSE>>
    /\ AdmittedIn(last.user_id, now) = MaxRequests
    /\ admitted[last.user_id][Len(admitted[last.user_id])] = now

\* C2: once max_requests calls have been admitted within the window, the
\* next call in the window is rejected, reports remaining = 0 and records
\* no event.
C2_RejectedWhenFull ==
    [][\A user_id \in Users :
         (CheckStep(user_id) /\ AdmittedIn(user_id, now) >= MaxRequests)
         => /\ last'.response = <<FALSE>>
            /\ last'.rate_limit_info[1].remaining = 0
            /\ admitted' = admitted
            /\ Len(requests'[user_id]) <= Len(RequestsOf(user_id))
            /\ \A i \in DOMAIN requests'[user_id] :
                 \E j \in DOMAIN requests[user_id] :
                    requests'[user_id][i] = requests[user_id][j]]_vars

\* C2 witness: a rejected call, with the window full of admitted calls.
C2_Witness ==
    /\ last.op = "check_rate_limit"
    /\ last.response = <<FALSE>>
    /\ last.rate_limit_info[1].remaining = 0
    /\ AdmittedIn(last.user_id, now) = MaxRequests

\* The call recorded in last came window_length or more after the
\* identity's last rejection, with no admitted call in between.
AfterFullWindow ==
    /\ last.op = "check_rate_limit"
    /\ last.inputs[1].throttled_at # <<>>
    /\ last.inputs[1].current_time
          >= last.inputs[1].throttled_at[1] + WindowTicks

\* C5: a call made window_length or more after the identity was throttled,
\* with no admitted call in between, is admitted.
C5_AdmittedAfterWindow ==
    AfterFullWindow => last.response = <<TRUE>>

\* C5 witness: such a call, made exactly window_length after the rejection.
C5_Witness ==
    /\ AfterFullWindow
    /\ last.inputs[1].current_time = last.inputs[1].throttled_at[1] + WindowTicks
    /\ last.response = <<TRUE>>

\* C6 as stated: the first call admitted after a full window on a throttled
\* identity reports remaining = max_requests - 1.
C6_AsStated ==
    AfterFullWindow => last.rate_limit_info[1].remaining = MaxRequests - 1

\* C6 amended: that call reports remaining = max_requests, the count before
\* the call itself is recorded; the call is the one event left in the
\* identity's window, so the next call in the window reports
\* max_requests - 1.
C6_RemainingBeforeThisCall ==
    AfterFullWindow
    => /\ last.rate_limit_info[1].remaining = MaxRequests
       /\ (now = last.inputs[1].current_time
           => /\ Len(requests[last.user_id]) = 1
              /\ CheckRateLimit(requests[last.user_id], now)
                    .rate_limit_info.remaining = MaxRequests - 1)

\* C6 witness: the identity admitted again after the window.
C6_Witness ==
    /\ AfterFullWindow
    /\ last.response = <<TRUE>>
    /\ Len(requests[last.user_id]) = 1

\* C7: a call for one identity leaves every other identity's events as they
\* are, and with them what a call for the other identity would answer.
C7_OtherIdentitiesUntouched ==
    [][\A a \in Users : CheckStep(a) =>
         \A b \in Users \ {a} :
            /\ RequestsOf(b)' = RequestsOf(b)
            /\ admitted'[b] = admitted[b]
            /\ CheckRateLimit(RequestsOf(b), now)'
                 = CheckRateLimit(RequestsOf(b), now)]_vars

\* C7 witness: an identity admitted with its whole quota while the other
\* identity is throttled at the same instant.
C7_Witness ==
    /\ last.op = "check_rate_limit"
    /\ last.response = <<TRUE>>
    /\ last.rate_limit_info[1].remaining = MaxRequests
    /\ \E a \in Users \ {last.user_id} :
          /\ throttled_at[a] = <<now>>
          /\ AdmittedIn(a, now) = MaxRequests

\* ------------------------------------------------- the chat endpoint's claims
\* The step is public_chat up to the await of the search: it follows the
\* rate_limit of the same request at once.
ChatStep == last.op = "rate_limit" /\ last'.op = "public_chat"

\* The request of the step names conversation c, which is stored.
RefersTo(c) ==
    /\ last'.inputs[1].request.conversation_id = <<c>>
    /\ c \in DOMAIN conversations

\* the status of the response in a step record, 0 when it holds none
StatusOf(l) == IF l.response = <<>> THEN 0 ELSE l.response[1].status

\* C3: a reference that resolves to a conversation stored for another
\* identity ends the request with 403, before any charge, creation or write.
C3_ForeignConversationForbidden ==
    [][ChatStep =>
         \A c \in DOMAIN conversations :
            ( /\ RefersTo(c)
              /\ ~last'.inputs[1].storage_fails
              /\ conversations[c].user_id # last'.user_id )
            => /\ StatusOf(last') = 403
               /\ usage' = usage
               /\ conversations' = conversations
               /\ turn'[CHOOSE s \in Slots : turn[s].pc = "admitted"] = IdleTurn
       ]_vars

\* C3 witness: a 403 for a request on another identity's conversation.
C3_Witness ==
    /\ last.op = "public_chat"
    /\ StatusOf(last) = 403
    /\ \E c \in DOMAIN conversations :
          /\ last.inputs[1].request.conversation_id = <<c>>
          /\ conversations[c].user_id # last.user_id

\* C4: a reference that matches no stored conversation, and a failure of
\* the lookup or the check, both end the request with 404, with nothing
\* charged or written.
C4_UnknownOrFailedIsNotFound ==
    [][( /\ ChatStep
         /\ last'.inputs[1].request.conversation_id # <<>>
         /\ \/ last'.inputs[1].storage_fails
            \/ last'.inputs[1].request.conversation_id[1]
                  \notin DOMAIN conversations )
       => /\ StatusOf(last') = 404
          /\ usage' = usage
          /\ conversations' = conversations
      ]_vars

\* C4 witness: the lookup of the requester's own conversation fails, and
\* the request ends 404.
C4_Witness ==
    /\ last.op = "public_chat"
    /\ StatusOf(last) = 404
    /\ last.inputs[1].storage_fails
    /\ \E c \in DOMAIN conversations :
          /\ last.inputs[1].request.conversation_id = <<c>>
          /\ conversations[c].user_id = last.user_id

\* C8: every response to a request that passed the rate-limit check carries
\* the quota metadata of that check.
C8_QuotaMetadataOnEveryResponse ==
    ( /\ last.op \in {"rate_limit", "public_chat", "search_returns"}
      /\ last.response # <<>> )
    => last.response[1].headers = last.rate_limit_info

\* The request of the step passes the permission check: it names no
\* conversation, or one stored for the requester and found without failure.
PassesPermissionCheck ==
    \/ last'.inputs[1].request.conversation_id = <<>>
    \/ /\ ~last'.inputs[1].storage_fails
       /\ \E c \in DOMAIN conversations :
             RefersTo(c) /\ conversations[c].user_id = last'.user_id

\* The response of a step record is the terminal response of the trial gate
\* for user_id, with the usage counts given.
IsTrialExceededResponse(l, counts) ==
    /\ StatusOf(l) = 200
    /\ l.response[1].body[1].trial_exceeded
    /\ l.response[1].body[1].recommendations = <<>>
    /\ l.response[1].body[1].usage_stats = <<GetUsage(counts, l.user_id)>>

\* C9: a turn of an anonymous identity whose trial limit is exceeded changes
\* no usage count, no conversation and no transcript; when it reaches the
\* trial gate it returns trial_exceeded = true with empty recommendations
\* and the current usage, and otherwise the permission check has ended it.
C9_TrialExceededIsTerminal ==
    [][( /\ ChatStep
         /\ IsAnonymous(last'.user_id)
         /\ usage[last'.user_id] >= TrialLimit )
       => /\ usage' = usage
          /\ conversations' = conversations
          /\ StatusOf(last') \in {200, 403, 404}
          /\ StatusOf(last') = 200 => IsTrialExceededResponse(last', usage)
          /\ PassesPermissionCheck => IsTrialExceededResponse(last', usage)
      ]_vars

\* C9 witness: the trial gate has answered an anonymous identity that names
\* its own conversation.
C9_Witness ==
    /\ last.op = "public_chat"
    /\ IsAnonymous(last.user_id)
    /\ IsTrialExceededResponse(last, usage)
    /\ last.inputs[1].request.conversation_id # <<>>
    /\ usage[last.user_id] = TrialLimit

\* C10: the charge of stage 2 stays: a turn that passes the trial gate
\* leaves the identity's count one higher whatever it answers (the
\* clarifying question and the server error included), and no step, of this
\* turn or another, lowers a count: not the search failing, nor the caller
\* going away during the search.
C10_ChargeStaysCommitted ==
    [][ /\ \A user_id \in Users : usage'[user_id] >= usage[user_id]
        /\ last'.op \in {"search_returns", "cancel"} => usage' = usage
        /\ ( /\ ChatStep
             /\ IsAnonymous(last'.user_id)
             /\ usage[last'.user_id] < TrialLimit
             /\ PassesPermissionCheck )
           => usage'[last'.user_id] = usage[last'.user_id] + 1
      ]_vars

\* C10 witness: the search of a charged turn has failed, the turn has ended
\* with a server error, and the charge is still counted.
C10_Witness ==
    /\ last.op = "search_returns"
    /\ StatusOf(last) = 500
    /\ IsAnonymous(last.user_id)
    /\ usage[last.user_id] = 1

\* ------------------------------------------------- the pipeline's claims
\* The slot of the request that takes a step of public_chat up to the await,
\* and of the request whose search answers in a step.
ChatSlot == CHOOSE s \in Slots : turn[s].pc = "admitted"
SearchSlot == CHOOSE s \in Slots : turn[s].pc = "searching" /\ turn'[s].pc = "idle"

\* The conversation of the turn that takes the step: the one it names, or
\* the one created for it.
TurnConversation ==
    IF last'.inputs[1].request.conversation_id = <<>>
    THEN Len(conversations) + 1
    ELSE last'.inputs[1].request.conversation_id[1]

MessagesOf(convs, c) == IF c \in DOMAIN convs THEN convs[c].messages ELSE <<>>

\* In the step, the transcript of conversation c gains messages of the roles
\* given, in this order, after the messages it had, and no other conversation
\* changes.
GainsOnly(c, roles) ==
    LET old == MessagesOf(conversations, c)
        new == MessagesOf(conversations', c)
    IN  /\ DOMAIN conversations' = DOMAIN conversations \cup {c}
        /\ \A d \in DOMAIN conversations \ {c} :
              conversations'[d] = conversations[d]
        /\ Len(new) = Len(old) + Len(roles)
        /\ \A i \in 1..Len(old) : new[i] = old[i]
        /\ \A i \in 1..Len(roles) : new[Len(old) + i].role = roles[i]

\* The response in a step record is the clarifying question.
IsClarifyResponse(l) ==
    /\ StatusOf(l) = 200
    /\ l.response[1].body[1].message = "which city"
    /\ l.response[1].body[1].recommendations = <<>>
    /\ ~l.response[1].body[1].trial_exceeded

\* C11: an initial turn for which the extracted preferences hold no location
\* and the heuristic extraction finds none returns the clarifying question
\* with empty recommendations, calls neither the cache nor the search, and
\* its transcript gains the user message of the turn and nothing else.
C11_ClarifyWithoutSearch ==
    [][( /\ ChatStep
         /\ "extract_user_preferences" \in last'.called
         /\ ~last'.inputs[1].extraction.raises
         /\ last'.inputs[1].extraction.location = "none"
         /\ "extract_location_from_query" \in last'.called
         /\ last'.inputs[1].query_city = None )
       => /\ IsClarifyResponse(last')
          /\ "get_cached_events" \notin last'.called
          /\ "intelligent_event_search" \notin last'.called
          /\ turn'[ChatSlot] = IdleTurn
          /\ GainsOnly(TurnConversation, <<"user">>)
      ]_vars

\* C11 witness: the clarifying question has been returned on a conversation
\* that already held a completed turn; its last message is the user's.
C11_Witness ==
    /\ last.op = "public_chat"
    /\ IsClarifyResponse(last)
    /\ last.inputs[1].request.is_initial_response
    /\ \E c \in DOMAIN conversations :
          /\ last.inputs[1].request.conversation_id = <<c>>
          /\ Len(conversations[c].messages) = 3
          /\ conversations[c].messages[2].role = "assistant"
          /\ conversations[c].messages[3].role = "user"

\* The turn of the step reaches the location resolution: it passes the
\* permission check and the trial gate, and its extraction, if it has one,
\* returns.
ReachesResolution ==
    /\ PassesPermissionCheck
    /\ ~(IsAnonymous(last'.user_id) /\ usage[last'.user_id] >= TrialLimit)
    /\ ~(last'.inputs[1].request.is_initial_response
         /\ last'.inputs[1].extraction.raises)

\* The turn of the step goes on to the corpus with this city and flag.
GoesOnWith(city, location_provided) ==
    /\ "get_cached_events" \in last'.called
    /\ turn'[ChatSlot].pc = "searching"
       => /\ turn'[ChatSlot].locals[1].city = city
          /\ turn'[ChatSlot].locals[1].location_provided = location_provided

\* C12: the city is the extracted location when the turn is initial and the
\* location is not "none" (the heuristic is then not consulted); otherwise
\* the city the heuristic finds; otherwise, on a non-initial turn, the
\* default city, flagged as not provided.  The response carries the default
\* note exactly when the city was defaulted.
C12_LocationPriority ==
    [][ /\ (ChatStep /\ ReachesResolution)
           => LET in == last'.inputs[1]
              IN  IF in.request.is_initial_response
                     /\ in.extraction.location = "Paris"
                  THEN /\ GoesOnWith("paris", TRUE)
                       /\ "extract_location_from_query" \notin last'.called
                  ELSE /\ "extract_location_from_query" \in last'.called
                       /\ IF in.query_city = "Boston"
                          THEN GoesOnWith("boston", TRUE)
                          ELSE ~in.request.is_initial_response
                               => GoesOnWith("new york", FALSE)
        /\ (last'.op = "search_returns" /\ StatusOf(last') = 200)
           => ( last'.response[1].body[1].message.location_note
                <=> ~turn[SearchSlot].locals[1].location_provided )
      ]_vars

\* C12 witness: a non-initial turn without a location has completed its
\* search on the default city and answered with the default note.
C12_Witness ==
    /\ last.op = "search_returns"
    /\ StatusOf(last) = 200
    /\ last.response[1].body[1].message.location_note
    /\ last.response[1].body[1].extracted_preferences = <<>>

\* C13: a turn that reaches the corpus and is given one (a non-empty list;
\* the empty one is C15's "no corpus") goes on to the search with
\* cache_used = (age is not null and age > 0), whatever the age, null
\* included; and each recommendation of a completed turn has the provenance
\* "cached" exactly when cache_used is true.
C13_CacheUsedFollowsAge ==
    [][ /\ ( /\ ChatStep
             /\ "get_cached_events" \in last'.called
             /\ ~last'.inputs[1].cache.raises
             /\ last'.inputs[1].cache.events # <<>> )
           => /\ StatusOf(last') # 500
              /\ turn'[ChatSlot].pc = "searching"
              /\ turn'[ChatSlot].locals[1].cache_used
                    = ( /\ last'.inputs[1].cache.age # <<>>
                        /\ last'.inputs[1].cache.age[1] > 0 )
        /\ (last'.op = "search_returns" /\ StatusOf(last') = 200)
           => \A i \in DOMAIN last'.response[1].body[1].recommendations :
                 (last'.response[1].body[1].recommendations[i].source = "cached")
                    <=> last'.response[1].body[1].cache_used
      ]_vars

\* C14: when the preference extraction of an initial turn fails, the turn
\* does not end in a server error: it goes on to the location resolution
\* (the heuristic is consulted, no location having been extracted).
C14_ExtractionFailureDegrades ==
    [][( /\ ChatStep
         /\ "extract_user_preferences" \in last'.called
         /\ last'.inputs[1].extraction.raises )
       => /\ StatusOf(last') # 500
          /\ "extract_location_from_query" \in last'.called
      ]_vars

\* C15: when the corpus acquisition fails (the collaborator raises, or
\* returns no corpus), the turn goes on to the search with no candidates,
\* cache_used = false and a null cache age; the search having answered, the
\* turn appends the assistant message and returns a normal response.
C15_CorpusFailureDegrades ==
    [][ /\ ( /\ ChatStep
             /\ "get_cached_events" \in last'.called
             /\ \/ last'.inputs[1].cache.raises
                \/ last'.inputs[1].cache.events = <<>> )
           => /\ StatusOf(last') # 500
              /\ turn'[ChatSlot].pc = "searching"
              /\ turn'[ChatSlot].locals[1].events = <<>>
              /\ ~turn'[ChatSlot].locals[1].cache_used
              /\ turn'[ChatSlot].locals[1].cache_age_hours = <<>>
        /\ ( /\ last'.op = "search_returns"
             /\ ~last'.inputs[1].raises
             /\ turn[SearchSlot].locals[1].events = <<>> )
           => /\ StatusOf(last') = 200
              /\ ~last'.response[1].body[1].cache_used
              /\ last'.response[1].body[1].cache_age_hours = <<>>
              /\ GainsOnly(turn[SearchSlot].locals[1].conversation_id,
                           <<"assistant">>)
      ]_vars

\* ------------------------------------------------- the verifier's claims
\* The credentials by what is wrong with them.
MissingCredentials == {<<>>}
MalformedCredentials == {<<"Bearer">>, <<"Basic", "alice">>}
RejectedCredentials == {<<"Bearer", "expired">>, <<"Bearer", "invalid">>}
GoodCredentials ==
    {<<"Bearer", "user_1">>, <<"BEARER", "alice">>}

\* C16: a missing, malformed, invalid or expired credential ends the request
\* with 401 and an internal failure of the verifier with 500, in both cases
\* before the rate limiter; a credential that verifies yields its identity,
\* and only such an identity is ever in a request past the verifier or in
\* the rate limiter's table.
C16_VerificationOutcomes ==
    /\ last.op = "verify_firebase_token"
       => LET authorization == last.inputs[1]
          IN  /\ authorization \in MissingCredentials \cup MalformedCredentials
                                      \cup RejectedCredentials
                 => StatusOf(last) = 401
              /\ authorization = <<"Bearer", "crash">> => StatusOf(last) = 500
              /\ authorization \in GoodCredentials
                 => /\ last.response = <<>>
                    /\ last.user_id = authorization[2]
                    /\ \E s \in Slots : /\ turn[s].pc = "verified"
                                        /\ turn[s].user_id = authorization[2]
              /\ last.response # <<>>
                 => \A s \in Slots : turn[s].pc # "verified"
    /\ \A s \in Slots : turn[s].pc # "idle" => turn[s].user_id \in Users
    /\ DOMAIN requests \subseteq Users
    /\ last.op = "rate_limit" => last.user_id \in Users

\* C16 witness: an expired credential has been answered 401 while the
\* request of a verified identity waits for its search.
C16_Witness ==
    /\ last.op = "verify_firebase_token"
    /\ last.inputs[1] = <<"Bearer", "expired">>
    /\ StatusOf(last) = 401
    /\ \E s \in Slots : turn[s].pc = "searching"

\* The exception a well-formed credential makes the verifier's try block
\* raise, None when it raises none or the credential is not well-formed.
RaisedFor(authorization) ==
    IF authorization = <<>> \/ BadFormat(authorization)
    THEN None
    ELSE VerifyTryBlock(authorization[2]).raises

\* The texts of the exceptions the collaborators of the pipeline raise.
ExceptionTexts ==
    {"extraction failed", "cache failed", "unsupported format string",
     "search failed"}

\* C17: the error response does not depend on the text of the exception:
\* the 401 or 500 of the verifier is the one every other credential failing
\* with the same class of exception gets, and the 500 of the pipeline is the
\* same whatever the text of the exception that caused it.
C17_ErrorResponsesWithoutDetail ==
    /\ ( /\ last.op = "verify_firebase_token"
         /\ RaisedFor(last.inputs[1]) # None )
       => \A authorization \in Authorizations :
             RaisedFor(authorization) = RaisedFor(last.inputs[1])
             => VerifyFirebaseTokenResult(authorization).error = last.response
    /\ ( /\ last.op \in {"public_chat", "search_returns"}
         /\ StatusOf(last) = 500 )
       => \A text \in ExceptionTexts : last.response[1] = InternalError(text)

\* ------------------------------------------------- the transcript's claims
\* The messages of a role in a transcript.
CountOf(messages, role) ==
    Cardinality({i \in DOMAIN messages : messages[i].role = role})

\* The turn of the step goes past the trial gate.
PastTrialGate ==
    /\ PassesPermissionCheck
    /\ ~(IsAnonymous(last'.user_id) /\ usage[last'.user_id] >= TrialLimit)

\* C18: every step leaves each transcript a prefix of what it becomes; a
\* turn that gets past the trial gate appends its user message once, in the
\* step that admits it to the pipeline, and its assistant message at most
\* once, when its search has answered; no other step writes; and no
\* conversation holds more assistant messages than user messages.
C18_TranscriptAppendOnly ==
    [][ /\ \A c \in DOMAIN conversations :
              /\ c \in DOMAIN conversations'
              /\ Len(conversations'[c].messages) >= Len(conversations[c].messages)
              /\ \A i \in DOMAIN conversations[c].messages :
                    conversations'[c].messages[i] = conversations[c].messages[i]
        /\ ChatStep
           => IF PastTrialGate
              THEN GainsOnly(TurnConversation, <<"user">>)
              ELSE conversations' = conversations
        /\ last'.op = "search_returns"
           => \/ conversations' = conversations
              \/ GainsOnly(turn[SearchSlot].locals[1].conversation_id,
                           <<"assistant">>)
        /\ last'.op \notin {"public_chat", "search_returns"}
           => conversations' = conversations
        /\ \A c \in DOMAIN conversations' :
              CountOf(conversations'[c].messages, "assistant")
                 <= CountOf(conversations'[c].messages, "user")
      ]_vars

\* C18 witness: two turns on one conversation have overlapped: both user
\* messages precede both assistant messages.
C18_Witness ==
    \E c \in DOMAIN conversations :
        /\ Len(conversations[c].messages) = 4
        /\ conversations[c].messages[2].role = "user"
        /\ conversations[c].messages[3].role = "assistant"
        /\ last.op = "search_returns"

\* C19: the stages run in the order verify, rate limit, authorize, trial
\* gate, write: a request answered 401, 429, 404 or 403 has charged nothing,
\* created no conversation and appended no message, in the step that answers
\* it and in the steps before it; a request answered 401 has not reached the
\* rate limiter, and one answered 429 has not reached public_chat.
C19_FailuresStopBeforeMutation ==
    [][ /\ StatusOf(last') \in {401, 429, 404, 403}
           => /\ usage' = usage
              /\ conversations' = conversations
              /\ \A s \in Slots : turn'[s] # turn[s] => turn'[s] = IdleTurn
        /\ last'.op \in {"verify_firebase_token", "rate_limit"}
           => /\ usage' = usage
              /\ conversations' = conversations
        /\ last'.op = "verify_firebase_token"
           => /\ requests' = requests
              /\ StatusOf(last') \in {0, 401, 500}
        /\ last'.op = "rate_limit"
           => /\ last.op = "verify_firebase_token" /\ last.response = <<>>
              /\ StatusOf(last') \in {0, 429}
        /\ last'.op = "public_chat"
           => /\ last.op = "rate_limit" /\ last.response = <<>>
              /\ requests' = requests
      ]_vars

\* C19 witness: an anonymous identity within its trial has been answered 403
\* on another identity's conversation, and is still uncharged.
C19_Witness ==
    /\ last.op = "public_chat"
    /\ StatusOf(last) = 403
    /\ IsAnonymous(last.user_id)
    /\ usage[last.user_id] = 0
    /\ \E c \in DOMAIN conversations :
          /\ last.inputs[1].request.conversation_id = <<c>>
          /\ Len(conversations[c].messages) = 2

\* The metadata of conversation c, null for one not yet created.
LastMessageAt(convs, c) ==
    IF c \in DOMAIN convs THEN convs[c].last_message_at ELSE <<>>

C21_MissingUserIdIsUnauthenticated ==
    ( /\ last.op = "verify_firebase_token"
      /\ last.inputs[1] = <<"Bearer", "nouid">> )
    => /\ StatusOf(last) = 401
       /\ last.response[1].detail = <<"User ID not found in token">>
       /\ \A s \in Slots : turn[s].pc # "verified"

\* ------------------------------------------------- termination
\* The step ends a request: a slot is given back, or the verifier has
\* answered a request that never got a slot.
EndsRequest ==
    \/ \E s \in Slots : turn[s].pc # "idle" /\ turn'[s].pc = "idle"
    \/ last'.op = "verify_firebase_token" /\ turn' = turn

C23_RetryGuidanceTruthful ==
    (last.op = "check_rate_limit" /\ last.response = <<FALSE>>)
    => LET t    == last.inputs[1].current_time
           r    == last.rate_limit_info[1].reset * TicksPerSecond
           list == RequestsOf(last.user_id)
       IN  /\ r = MinTs(list) + WindowTicks
           /\ r > t
           /\ \A t2 \in t..(MaxTime + WindowTicks) :
                 IF t2 < r
                 THEN /\ ~CheckRateLimit(list, t2).is_allowed
                      /\ Len(CheckRateLimit(list, t2).list) <= Len(list)
                 ELSE CheckRateLimit(list, t2).is_allowed

\* ------------------------------------------------- ownership
\* The step writes conversation c: its transcript or its metadata changes.
Writes(c) ==
    \/ conversations'[c].messages # conversations[c].messages
    \/ conversations'[c].last_message_at # conversations[c].last_message_at

C25_TrialCheckAndChargeAtomic ==
    [][ /\ \A user_id \in Users :
              /\ usage'[user_id] >= usage[user_id]
              /\ usage'[user_id] <= TrialLimit
              /\ ~IsAnonymous(user_id) => usage'[user_id] = 0
              /\ usage'[user_id] # usage[user_id]
                 => /\ ChatStep
                    /\ last'.user_id = user_id
                    /\ usage[user_id] < TrialLimit
                    /\ usage'[user_id] = usage[user_id] + 1
        /\ (ChatStep /\ IsAnonymous(last'.user_id) /\ PassesPermissionCheck)
           => IF usage[last'.user_id] < TrialLimit
              THEN usage'[last'.user_id] = usage[last'.user_id] + 1
              ELSE IsTrialExceededResponse(last', usage)
        /\ (ChatStep /\ ~IsAnonymous(last'.user_id) /\ StatusOf(last') = 200)
           => ~last'.response[1].body[1].trial_exceeded
        /\ last'.op \in {"verify_firebase_token", "rate_limit",
                         "check_rate_limit"}
           => usage' = usage
      ]_vars

\* C25 witness: two turns of one ephemeral identity overlap: the first,
\* charged, is suspended on its search, and the second has been answered by
\* the trial gate, with the count at the limit.
C25_Witness ==
    /\ last.op = "public_chat"
    /\ IsAnonymous(last.user_id)
    /\ IsTrialExceededResponse(last, usage)
    /\ usage[last.user_id] = TrialLimit
    /\ \E s \in Slots : /\ turn[s].pc = "searching"
                        /\ turn[s].user_id = last.user_id

=============================================================================
